---- MODULE Spec2Model ----
(***************************************************************************)
(* Model of src/app.py: the absence-lookup bot.  The state is the          *)
(* process-wide record set STUDENT_DATA, the LAST_UPDATED_TIME string, the *)
(* per-user context (user_data) and the state of the edit conversation,    *)
(* together with the remote file the bot fetches and commits to.           *)
(*                                                                         *)
(* Text is modelled as a sequence of symbols.  A symbol is one character   *)
(* (" ", "\n", "\r", ";", a digit, a sign, a letter) or one word that      *)
(* holds no delimiter and no leading or trailing blank and therefore acts  *)
(* as a unit under strip/split ("ID nomer" stands for the column name      *)
(* 'ID номер', "FIO" for 'ФИО', "Kolichestvo propuskov" for 'Количество    *)
(* пропусков', "Neizvestno" for 'Неизвестно', "BOM" for U+FEFF).  The      *)
(* texts considered hold no quote character, so csv's reader splits a line *)
(* at every ';' and csv's writer never quotes.                             *)
(*                                                                         *)
(* One step is one update handled from its first line to its return: the   *)
(* updates of the webhook are taken one after the other, and every user    *)
(* talks to the bot in one chat, so a conversation is kept per user.  A    *)
(* command no handler matches in the current state (/cancel outside the    *)
(* conversation, /edit_pass inside it) changes nothing and is no step.     *)
(***************************************************************************)
EXTENDS Integers, Sequences, FiniteSets, TLC

VARIABLES STUDENT_DATA, LAST_UPDATED_TIME, user_data, conv, remote, env, phase, last

vars == <<STUDENT_DATA, LAST_UPDATED_TIME, user_data, conv, remote, env, phase, last>>

(***************************************************************************)
(* Text primitives (Python str methods, as the code uses them).            *)
(***************************************************************************)
BOM == "BOM"

Whitespace == {" ", "\n", "\r"}

LineBreaks == {"\n", "\r"}

RECURSIVE LStrip(_)
LStrip(s) == IF s # <<>> /\ Head(s) \in Whitespace THEN LStrip(Tail(s)) ELSE s

RECURSIVE RStrip(_)
RStrip(s) ==
    IF s # <<>> /\ s[Len(s)] \in Whitespace THEN RStrip(SubSeq(s, 1, Len(s) - 1)) ELSE s

Strip(s) == RStrip(LStrip(s))

RECURSIVE LStripBOM(_)
LStripBOM(s) == IF s # <<>> /\ Head(s) = BOM THEN LStripBOM(Tail(s)) ELSE s

\* str.splitlines(): breaks at "\n", "\r" and "\r\n"; no empty last line.
RECURSIVE SplitLinesFrom(_, _)
SplitLinesFrom(s, cur) ==
    IF s = <<>> THEN (IF cur = <<>> THEN <<>> ELSE <<cur>>)
    ELSE IF Len(s) >= 2 /\ s[1] = "\r" /\ s[2] = "\n"
         THEN <<cur>> \o SplitLinesFrom(SubSeq(s, 3, Len(s)), <<>>)
    ELSE IF Head(s) \in LineBreaks
         THEN <<cur>> \o SplitLinesFrom(Tail(s), <<>>)
    ELSE SplitLinesFrom(Tail(s), Append(cur, Head(s)))

SplitLines(s) == SplitLinesFrom(s, <<>>)

\* str.split(d): always at least one piece.
RECURSIVE SplitFrom(_, _, _)
SplitFrom(s, d, cur) ==
    IF s = <<>> THEN <<cur>>
    ELSE IF Head(s) = d THEN <<cur>> \o SplitFrom(Tail(s), d, <<>>)
    ELSE SplitFrom(Tail(s), d, Append(cur, Head(s)))

Split(s, d) == SplitFrom(s, d, <<>>)

\* sep.join(parts)
RECURSIVE Join(_, _)
Join(parts, sep) ==
    IF parts = <<>> THEN <<>>
    ELSE IF Len(parts) = 1 THEN parts[1]
    ELSE parts[1] \o sep \o Join(Tail(parts), sep)

Digits == {"0", "1", "2", "3", "4", "5", "6", "7", "8", "9"}

DigitVal(c) ==
    CASE c = "0" -> 0 [] c = "1" -> 1 [] c = "2" -> 2 [] c = "3" -> 3 [] c = "4" -> 4
      [] c = "5" -> 5 [] c = "6" -> 6 [] c = "7" -> 7 [] c = "8" -> 8 [] c = "9" -> 9

DigitChar(d) ==
    CASE d = 0 -> "0" [] d = 1 -> "1" [] d = 2 -> "2" [] d = 3 -> "3" [] d = 4 -> "4"
      [] d = 5 -> "5" [] d = 6 -> "6" [] d = 7 -> "7" [] d = 8 -> "8" [] d = 9 -> "9"

RECURSIVE DigitsVal(_, _)
DigitsVal(s, acc) ==
    IF s = <<>> THEN acc ELSE DigitsVal(Tail(s), 10 * acc + DigitVal(Head(s)))

\* int(s) of a str: blanks around are ignored, one optional sign, then digits
\* only; anything else raises ValueError (ok = FALSE).
int(s) ==
    LET t == Strip(s)
        signed == t # <<>> /\ Head(t) \in {"-", "+"}
        body == IF signed THEN Tail(t) ELSE t
        valid == body # <<>> /\ \A i \in 1..Len(body) : body[i] \in Digits
    IN  IF ~valid THEN [ok |-> FALSE, val |-> 0]
        ELSE [ok |-> TRUE,
              val |-> IF signed /\ Head(t) = "-" THEN 0 - DigitsVal(body, 0)
                      ELSE DigitsVal(body, 0)]

RECURSIVE NatStr(_)
NatStr(n) == IF n < 10 THEN <<DigitChar(n)>> ELSE Append(NatStr(n \div 10), DigitChar(n % 10))

\* str(n) of an int
str(n) == IF n < 0 THEN <<"-">> \o NatStr(0 - n) ELSE NatStr(n)

(***************************************************************************)
(* The record set: a Python dict, which keeps insertion order.  It is a    *)
(* sequence of entries with distinct ids; each entry carries the two       *)
(* fields parse_csv_data stores.                                           *)
(***************************************************************************)
student_id_key == <<"ID nomer">>

absences_key == <<"Kolichestvo propuskov">>

fio_key == <<"FIO">>

Neizvestno == <<"Neizvestno">>

Keys(d) == {d[i].id : i \in 1..Len(d)}

Has(d, k) == k \in Keys(d)

IndexOf(d, k) == CHOOSE i \in 1..Len(d) : d[i].id = k

Get(d, k) == d[IndexOf(d, k)]

\* d[k] = {FIO: fio, absences: n}: replaces in place, or appends a new key.
DictSet(d, k, fio, n) ==
    LET e == [id |-> k, FIO |-> fio, absences |-> n]
    IN  IF Has(d, k) THEN [d EXCEPT ![IndexOf(d, k)] = e] ELSE Append(d, e)

\* d[k]['absences'] = n on an existing key
SetAbsences(d, k, n) == [d EXCEPT ![IndexOf(d, k)].absences = n]

\* The dict as a mapping, its order forgotten.
AsMap(d) == [k \in Keys(d) |-> [FIO |-> Get(d, k).FIO, absences |-> Get(d, k).absences]]

(***************************************************************************)
(* parse_csv_data                                                          *)
(***************************************************************************)
delimiter_char == ";"

RECURSIVE NonEmpty(_)
NonEmpty(names) ==
    IF names = <<>> THEN <<>>
    ELSE IF Head(names) = <<>> THEN NonEmpty(Tail(names))
    ELSE <<Head(names)>> \o NonEmpty(Tail(names))

StripAll(names) == [i \in 1..Len(names) |-> Strip(names[i])]

\* One line as csv.reader returns it: an empty line is the empty list.
ReaderRow(line) == IF line = <<>> THEN <<>> ELSE Split(line, delimiter_char)

\* csv.DictReader's row: dict(zip(fieldnames, row)); fields beyond the header
\* go to the key None as a list (rest), columns beyond the row get None.
DictRow(fieldnames, fields) ==
    LET lf == Len(fieldnames)
        lr == Len(fields)
        names == {fieldnames[i] : i \in 1..lf}
        lastCol(k) == CHOOSE i \in 1..lf :
                          fieldnames[i] = k /\ \A j \in (i + 1)..lf : fieldnames[j] # k
    IN  [vals |-> [k \in names |->
                      IF lastCol(k) <= lr THEN [none |-> FALSE, s |-> fields[lastCol(k)]]
                      ELSE [none |-> TRUE, s |-> <<>>]],
         rest |-> IF lf < lr THEN SubSeq(fields, lf + 1, lr) ELSE <<>>]

\* all(not v for v in row.values())
AllEmpty(row) ==
    /\ row.rest = <<>>
    /\ \A k \in DOMAIN row.vals : row.vals[k].none \/ row.vals[k].s = <<>>

\* processed_row.get(key, default): every value stripped, None read as ''.
RowGet(row, key, default) ==
    IF key \in DOMAIN row.vals
    THEN (IF row.vals[key].none THEN <<>> ELSE Strip(row.vals[key].s))
    ELSE default

\* A loop that gives up at a row without an identifier.
RECURSIVE ProcessRows_StopsAtBlankId(_, _, _)
ProcessRows_StopsAtBlankId(lines, fieldnames, data) ==
    IF lines = <<>> THEN [ok |-> TRUE, data |-> data]
    ELSE LET fields == ReaderRow(Head(lines))
             row == DictRow(fieldnames, fields)
         IN  IF fields = <<>> THEN ProcessRows_StopsAtBlankId(Tail(lines), fieldnames, data)
             ELSE IF AllEmpty(row)
             THEN ProcessRows_StopsAtBlankId(Tail(lines), fieldnames, data)
             ELSE IF row.rest # <<>> THEN [ok |-> FALSE, data |-> data]
             ELSE LET student_id == IF student_id_key \in DOMAIN row.vals
                                    THEN Strip(RowGet(row, student_id_key, <<>>))
                                    ELSE <<>>
                      absences_str == RowGet(row, absences_key, <<"0">>)
                      absences == IF int(absences_str).ok THEN int(absences_str).val ELSE 0
                      fio == RowGet(row, fio_key, Neizvestno)
                  IN  IF student_id # <<>>
                      THEN ProcessRows_StopsAtBlankId(Tail(lines), fieldnames,
                                                      DictSet(data, student_id, fio, absences))
                      ELSE [ok |-> FALSE, data |-> data]

\* The loop over the reader's rows, filling the record set as it goes.  A row
\* with a list under the key None makes v.strip() raise: the loop is left
\* through the handler at the end of parse_csv_data with what was stored so far.
RECURSIVE ProcessRows(_, _, _)
ProcessRows(lines, fieldnames, data) ==
    IF lines = <<>> THEN [ok |-> TRUE, data |-> data]
    ELSE LET fields == ReaderRow(Head(lines))
             row == DictRow(fieldnames, fields)
         IN  IF fields = <<>> THEN ProcessRows(Tail(lines), fieldnames, data)
             ELSE IF AllEmpty(row) THEN ProcessRows(Tail(lines), fieldnames, data)
             ELSE IF row.rest # <<>> THEN [ok |-> FALSE, data |-> data]
             ELSE LET student_id == IF student_id_key \in DOMAIN row.vals
                                    THEN Strip(RowGet(row, student_id_key, <<>>))
                                    ELSE <<>>
                      absences_str == RowGet(row, absences_key, <<"0">>)
                      absences == IF int(absences_str).ok THEN int(absences_str).val ELSE 0
                      fio == RowGet(row, fio_key, Neizvestno)
                  IN  IF student_id # <<>>
                      THEN ProcessRows(Tail(lines), fieldnames,
                                       DictSet(data, student_id, fio, absences))
                      ELSE ProcessRows(Tail(lines), fieldnames, data)

\* A parser that reports success for a text without lines.
parse_csv_data_BlankOk(csv_content) ==
    LET content == IF csv_content # <<>> /\ Head(csv_content) = BOM
                   THEN LStripBOM(csv_content) ELSE csv_content
        csv_lines == SplitLines(Strip(content))
        header_line == Strip(csv_lines[1])
        fieldnames == NonEmpty(StripAll(Split(header_line, delimiter_char)))
        data_lines == Tail(csv_lines)
        reader_lines == Split(Join(data_lines, <<"\n">>), "\n")
    IN  IF csv_lines = <<>> THEN [ok |-> TRUE, data |-> <<>>]
        ELSE IF header_line = <<>> THEN [ok |-> FALSE, data |-> <<>>]
        ELSE IF fieldnames = <<>> THEN [ok |-> FALSE, data |-> <<>>]
        ELSE IF data_lines = <<>> THEN [ok |-> TRUE, data |-> <<>>]
        ELSE ProcessRows(reader_lines, fieldnames, <<>>)

\* The result is [ok, data]: the returned flag and the STUDENT_DATA left behind
\* (the function starts by emptying it).
parse_csv_data(csv_content) ==
    LET content == IF csv_content # <<>> /\ Head(csv_content) = BOM
                   THEN LStripBOM(csv_content) ELSE csv_content
        csv_lines == SplitLines(Strip(content))
        header_line == Strip(csv_lines[1])
        fieldnames == NonEmpty(StripAll(Split(header_line, delimiter_char)))
        data_lines == Tail(csv_lines)
        reader_lines == Split(Join(data_lines, <<"\n">>), "\n")
    IN  IF csv_lines = <<>> THEN [ok |-> FALSE, data |-> <<>>]
        ELSE IF header_line = <<>> THEN [ok |-> FALSE, data |-> <<>>]
        ELSE IF fieldnames = <<>> THEN [ok |-> FALSE, data |-> <<>>]
        ELSE IF data_lines = <<>> THEN [ok |-> TRUE, data |-> <<>>]
        ELSE ProcessRows(reader_lines, fieldnames, <<>>)

(***************************************************************************)
(* convert_data_to_csv_string                                              *)
(***************************************************************************)
HeaderText == Join(<<student_id_key, fio_key, absences_key>>, <<delimiter_char>>)

\* A writer that puts the name in the first column and the identifier in the
\* second.
RECURSIVE WriteRows_NameFirst(_)
WriteRows_NameFirst(d) ==
    IF d = <<>> THEN <<>>
    ELSE Join(<<d[1].FIO, d[1].id, str(d[1].absences)>>, <<delimiter_char>>)
         \o <<"\r", "\n">> \o WriteRows_NameFirst(Tail(d))

\* csv.DictWriter ends every row, the header too, with "\r\n".
RECURSIVE WriteRows(_)
WriteRows(d) ==
    IF d = <<>> THEN <<>>
    ELSE Join(<<d[1].id, d[1].FIO, str(d[1].absences)>>, <<delimiter_char>>)
         \o <<"\r", "\n">> \o WriteRows(Tail(d))

\* A serializer that writes the first record only.
convert_data_to_csv_string_FirstRow(d) ==
    IF d = <<>> THEN HeaderText \o <<"\n">>
    ELSE HeaderText \o <<"\r", "\n">> \o WriteRows(<<d[1]>>)

convert_data_to_csv_string(d) ==
    IF d = <<>> THEN HeaderText \o <<"\n">>
    ELSE HeaderText \o <<"\r", "\n">> \o WriteRows(d)

(***************************************************************************)
(* Configuration and constants of the module level.                        *)
(***************************************************************************)
\* An absent value (None, a missing key); the code tests these by truth, and
\* the empty string counts as absent too.
None == <<>>

ADMIN_USER_ID == 1234567890

OtherUser == ADMIN_USER_ID + 1

Users == {ADMIN_USER_ID, OtherUser}

GETTING_ID == 0

GETTING_ABSENCES == 1

\* ConversationHandler.END: no conversation is open.
END == -1

BTN_CHECK_PASSES == <<"Posmotret kolichestvo propuskov">>

BTN_CHANGE_ID == <<"Smenit nomer">>

\* The environment the process is started in (os.getenv at import time): every
\* setting present, or one of them absent, or the repository details too short.
FullEnv ==
    [CSV_URL |-> <<"https://raw/file.csv">>, GITHUB_TOKEN |-> <<"token">>,
     REPO_DETAILS_FULL |-> <<"user", "/", "repo", "/", "main", "/", "file.csv">>]

Envs ==
    {FullEnv,
     [FullEnv EXCEPT !.CSV_URL = None],
     [FullEnv EXCEPT !.GITHUB_TOKEN = None],
     [FullEnv EXCEPT !.REPO_DETAILS_FULL = None],
     [FullEnv EXCEPT !.REPO_DETAILS_FULL = <<"user", "/", "repo">>]}

\* REPO_DETAILS_FULL.split('/', 3) unpacks into four names, or raises ValueError.
RepoDetailsOk(e) == Len(Split(e.REPO_DETAILS_FULL, "/")) >= 4

(***************************************************************************)
(* load_data_from_git                                                      *)
(***************************************************************************)
Pad2(n) == IF n < 10 THEN <<"0">> \o str(n) ELSE str(n)

\* A commit date is [day, hour] of January 2024, UTC; the display is UTC+3.
astimezone_msk(d) ==
    IF d.hour + 3 >= 24 THEN [day |-> d.day + 1, hour |-> d.hour + 3 - 24]
    ELSE [day |-> d.day, hour |-> d.hour + 3]

\* strftime("%d.%m.%Y в %H:%M MSK")
strftime(d) ==
    Pad2(d.day) \o <<".", "0", "1", ".", "2", "0", "2", "4", " ", "v", " ">>
    \o Pad2(d.hour) \o <<":", "0", "0", " ", "MSK">>

\* Step 1 of load_data_from_git: the new LAST_UPDATED_TIME.  `commits` is the
\* answer of the commits API: [ok, list], the list holding the dates of the
\* commit entries returned (per_page=1).
LoadTimestamp(e, lut, commits) ==
    IF e.CSV_URL = None \/ e.GITHUB_TOKEN = None \/ e.REPO_DETAILS_FULL = None
    THEN Neizvestno
    ELSE IF ~RepoDetailsOk(e) THEN Neizvestno
    ELSE IF ~commits.ok THEN Neizvestno
    ELSE IF commits.list # <<>> THEN strftime(astimezone_msk(commits.list[1]))
    ELSE lut

\* Whether step 1 sends its request.
LoadQueriesCommits(e) ==
    /\ e.CSV_URL # None /\ e.GITHUB_TOKEN # None /\ e.REPO_DETAILS_FULL # None
    /\ RepoDetailsOk(e)

\* The records of `new` written over those of `old`, the other keys of `old`
\* kept.
RECURSIVE MergeInto(_, _)
MergeInto(old, new) ==
    IF new = <<>> THEN old
    ELSE MergeInto(DictSet(old, new[1].id, new[1].FIO, new[1].absences), Tail(new))

\* A load that merges what it parsed into the record set it found.
load_data_from_git_Merge(e, lut, sd, rem, commits, rawOk) ==
    LET time == LoadTimestamp(e, lut, commits)
        q1 == IF LoadQueriesCommits(e)
              THEN <<[method |-> "GET", url |-> "commits", ok |-> commits.ok]>> ELSE <<>>
        parsed == parse_csv_data(rem)
    IN  IF e.CSV_URL = None
        THEN [ret |-> FALSE, STUDENT_DATA |-> sd, LAST_UPDATED_TIME |-> time, http |-> q1]
        ELSE IF ~rawOk
        THEN [ret |-> FALSE, STUDENT_DATA |-> sd, LAST_UPDATED_TIME |-> time,
              http |-> Append(q1, [method |-> "GET", url |-> "raw", ok |-> FALSE])]
        ELSE [ret |-> parsed.ok, STUDENT_DATA |-> MergeInto(sd, parsed.data),
              LAST_UPDATED_TIME |-> time,
              http |-> Append(q1, [method |-> "GET", url |-> "raw", ok |-> TRUE])]

\* A load that gives up when the commits query fails.
load_data_from_git_NeedsTimestamp(e, lut, sd, rem, commits, rawOk) ==
    LET time == LoadTimestamp(e, lut, commits)
        q1 == IF LoadQueriesCommits(e)
              THEN <<[method |-> "GET", url |-> "commits", ok |-> commits.ok]>> ELSE <<>>
        parsed == parse_csv_data(rem)
    IN  IF e.CSV_URL = None \/ (LoadQueriesCommits(e) /\ ~commits.ok)
        THEN [ret |-> FALSE, STUDENT_DATA |-> sd, LAST_UPDATED_TIME |-> time, http |-> q1]
        ELSE IF ~rawOk
        THEN [ret |-> FALSE, STUDENT_DATA |-> sd, LAST_UPDATED_TIME |-> time,
              http |-> Append(q1, [method |-> "GET", url |-> "raw", ok |-> FALSE])]
        ELSE [ret |-> parsed.ok, STUDENT_DATA |-> parsed.data, LAST_UPDATED_TIME |-> time,
              http |-> Append(q1, [method |-> "GET", url |-> "raw", ok |-> TRUE])]

\* A load that empties the record set before it downloads.
load_data_from_git_ClearsFirst(e, lut, sd, rem, commits, rawOk) ==
    LET time == LoadTimestamp(e, lut, commits)
        q1 == IF LoadQueriesCommits(e)
              THEN <<[method |-> "GET", url |-> "commits", ok |-> commits.ok]>> ELSE <<>>
        parsed == parse_csv_data(rem)
    IN  IF e.CSV_URL = None
        THEN [ret |-> FALSE, STUDENT_DATA |-> sd, LAST_UPDATED_TIME |-> time, http |-> q1]
        ELSE IF ~rawOk
        THEN [ret |-> FALSE, STUDENT_DATA |-> <<>>, LAST_UPDATED_TIME |-> time,
              http |-> Append(q1, [method |-> "GET", url |-> "raw", ok |-> FALSE])]
        ELSE [ret |-> parsed.ok, STUDENT_DATA |-> parsed.data, LAST_UPDATED_TIME |-> time,
              http |-> Append(q1, [method |-> "GET", url |-> "raw", ok |-> TRUE])]

\* The whole function: [ret, STUDENT_DATA, LAST_UPDATED_TIME, http].  `rawOk`
\* tells whether the GET of CSV_URL answers with success; it then returns the
\* remote file `rem`.
load_data_from_git(e, lut, sd, rem, commits, rawOk) ==
    LET time == LoadTimestamp(e, lut, commits)
        q1 == IF LoadQueriesCommits(e)
              THEN <<[method |-> "GET", url |-> "commits", ok |-> commits.ok]>> ELSE <<>>
        parsed == parse_csv_data(rem)
    IN  IF e.CSV_URL = None
        THEN [ret |-> FALSE, STUDENT_DATA |-> sd, LAST_UPDATED_TIME |-> time, http |-> q1]
        ELSE IF ~rawOk
        THEN [ret |-> FALSE, STUDENT_DATA |-> sd, LAST_UPDATED_TIME |-> time,
              http |-> Append(q1, [method |-> "GET", url |-> "raw", ok |-> FALSE])]
        ELSE [ret |-> parsed.ok, STUDENT_DATA |-> parsed.data, LAST_UPDATED_TIME |-> time,
              http |-> Append(q1, [method |-> "GET", url |-> "raw", ok |-> TRUE])]

(***************************************************************************)
(* update_github_file                                                      *)
(***************************************************************************)
\* The version token of a blob is addressed by its content.
Sha(content) == <<"sha">> \o content

\* base64 of the payload, which the remote host decodes again.
b64encode(content) == <<"b64">> \o content

b64decode(encoded) == Tail(encoded)

\* A commit that sends the write although the token could not be read.
update_github_file_WritesAnyway(e, new_csv_content, commit_message, rem, getOk, putOk) ==
    LET get == [method |-> "GET", url |-> "contents", ok |-> getOk]
        put == [method |-> "PUT", url |-> "contents", ok |-> putOk,
                message |-> commit_message, content |-> b64encode(new_csv_content),
                sha |-> Sha(rem)]
    IN  IF e.GITHUB_TOKEN = None \/ e.REPO_DETAILS_FULL = None
        THEN [ret |-> FALSE, http |-> <<>>, remote |-> rem]
        ELSE IF ~RepoDetailsOk(e) THEN [ret |-> FALSE, http |-> <<>>, remote |-> rem]
        ELSE IF ~putOk THEN [ret |-> FALSE, http |-> <<get, put>>, remote |-> rem]
        ELSE [ret |-> TRUE, http |-> <<get, put>>, remote |-> b64decode(put.content)]

\* [ret, http, remote]: the result, the requests sent and the remote file
\* afterwards.  getOk, putOk: whether the GET of the token and the PUT succeed.
update_github_file(e, new_csv_content, commit_message, rem, getOk, putOk) ==
    LET get == [method |-> "GET", url |-> "contents", ok |-> getOk]
        put == [method |-> "PUT", url |-> "contents", ok |-> putOk,
                message |-> commit_message, content |-> b64encode(new_csv_content),
                sha |-> Sha(rem)]
    IN  IF e.GITHUB_TOKEN = None \/ e.REPO_DETAILS_FULL = None
        THEN [ret |-> FALSE, http |-> <<>>, remote |-> rem]
        ELSE IF ~RepoDetailsOk(e) THEN [ret |-> FALSE, http |-> <<>>, remote |-> rem]
        ELSE IF ~getOk THEN [ret |-> FALSE, http |-> <<get>>, remote |-> rem]
        ELSE IF ~putOk THEN [ret |-> FALSE, http |-> <<get, put>>, remote |-> rem]
        ELSE [ret |-> TRUE, http |-> <<get, put>>, remote |-> b64decode(put.content)]

(***************************************************************************)
(* Handlers.  Each is an operator from the state it reads and the update   *)
(* it is given to what it leaves behind: the user's context `ud`, the      *)
(* state the conversation handler stores for the user, the record set, the *)
(* replies sent and the requests made.  `raised` names an exception that   *)
(* left the handler; the conversation handler then stores no new state.    *)
(***************************************************************************)
denied == [kind |-> "denied"]

StartReply(ud, lut) ==
    IF ud.registered_id # None
    THEN [kind |-> "welcome_back", id |-> ud.registered_id, time |-> lut]
    ELSE [kind |-> "greeting"]

\* A /start that also drops the marker of the edit conversation.
start_command_ClearsMarker(ud, lut) ==
    [ud |-> [ud EXCEPT !.temp_edit_id = None], replies |-> <<StartReply(ud, lut)>>]

start_command(ud, lut) == [ud |-> ud, replies |-> <<StartReply(ud, lut)>>]

change_id_handler(ud) ==
    [ud |-> [ud EXCEPT !.registered_id = None], replies |-> <<[kind |-> "ask_new_id"]>>]

\* A lookup that reports no absences for anybody.
process_data_request_ZeroCount(sd, lut, search_id) ==
    IF Has(sd, search_id)
    THEN [kind |-> "data", name |-> Get(sd, search_id).FIO, id |-> search_id,
          absences |-> 0, time |-> lut]
    ELSE [kind |-> "data_error"]

process_data_request(sd, lut, search_id) ==
    IF Has(sd, search_id)
    THEN [kind |-> "data", name |-> Get(sd, search_id).FIO, id |-> search_id,
          absences |-> Get(sd, search_id).absences, time |-> lut]
    ELSE [kind |-> "data_error"]

handle_message(ud, sd, lut, text) ==
    LET user_input == Strip(text)
        search_id == Strip(user_input)
    IN  IF user_input = BTN_CHECK_PASSES
        THEN (IF ud.registered_id = None THEN start_command(ud, lut)
              ELSE [ud |-> ud,
                    replies |-> <<process_data_request(sd, lut, ud.registered_id)>>])
        ELSE IF user_input = BTN_CHANGE_ID THEN change_id_handler(ud)
        ELSE IF ~Has(sd, search_id)
        THEN [ud |-> ud, replies |-> <<[kind |-> "not_found", id |-> search_id]>>]
        ELSE [ud |-> [ud EXCEPT !.registered_id = search_id],
              replies |-> <<[kind |-> "saved", name |-> Get(sd, search_id).FIO,
                             id |-> search_id],
                            process_data_request(sd, lut, search_id)>>]

\* [ret, STUDENT_DATA, LAST_UPDATED_TIME, replies, http]
reload_data_command(user, e, lut, sd, rem, commits, rawOk) ==
    LET r == load_data_from_git(e, lut, sd, rem, commits, rawOk)
    IN  IF user # ADMIN_USER_ID
        THEN [STUDENT_DATA |-> sd, LAST_UPDATED_TIME |-> lut,
              replies |-> <<denied>>, http |-> <<>>]
        ELSE [STUDENT_DATA |-> r.STUDENT_DATA, LAST_UPDATED_TIME |-> r.LAST_UPDATED_TIME,
              replies |-> <<[kind |-> "loading"],
                            IF r.ret
                            THEN [kind |-> "reloaded", count |-> Len(r.STUDENT_DATA),
                                  time |-> r.LAST_UPDATED_TIME]
                            ELSE [kind |-> "load_failed"]>>,
              http |-> r.http]

\* /edit_pass without the check of the sender.
start_edit_pass_command_Open(user) ==
    [state |-> GETTING_ID, replies |-> <<[kind |-> "edit_mode"]>>]

start_edit_pass_command(user) ==
    IF user # ADMIN_USER_ID THEN [state |-> END, replies |-> <<denied>>]
    ELSE [state |-> GETTING_ID, replies |-> <<[kind |-> "edit_mode"]>>]

\* An identifier step that ends the conversation on an unknown identifier.
get_student_id_EndsOnUnknown(ud, sd, text) ==
    LET student_id == Strip(text)
    IN  IF ~Has(sd, student_id)
        THEN [ud |-> ud, state |-> END,
              replies |-> <<[kind |-> "edit_not_found", id |-> student_id]>>]
        ELSE [ud |-> [ud EXCEPT !.temp_edit_id = student_id], state |-> GETTING_ABSENCES,
              replies |-> <<[kind |-> "edit_found", id |-> student_id,
                             name |-> Get(sd, student_id).FIO,
                             absences |-> Get(sd, student_id).absences]>>]

\* An identifier step that stores the text as typed, surrounding blanks kept.
get_student_id_RawText(ud, sd, text) ==
    LET student_id == Strip(text)
    IN  IF ~Has(sd, student_id)
        THEN [ud |-> ud, state |-> GETTING_ID,
              replies |-> <<[kind |-> "edit_not_found", id |-> student_id]>>]
        ELSE [ud |-> [ud EXCEPT !.temp_edit_id = text], state |-> GETTING_ABSENCES,
              replies |-> <<[kind |-> "edit_found", id |-> student_id,
                             name |-> Get(sd, student_id).FIO,
                             absences |-> Get(sd, student_id).absences]>>]

get_student_id(ud, sd, text) ==
    LET student_id == Strip(text)
    IN  IF ~Has(sd, student_id)
        THEN [ud |-> ud, state |-> GETTING_ID,
              replies |-> <<[kind |-> "edit_not_found", id |-> student_id]>>]
        ELSE [ud |-> [ud EXCEPT !.temp_edit_id = student_id], state |-> GETTING_ABSENCES,
              replies |-> <<[kind |-> "edit_found", id |-> student_id,
                             name |-> Get(sd, student_id).FIO,
                             absences |-> Get(sd, student_id).absences]>>]

\* A count step that takes negative numbers too.
NewAbsences_AnySign(text) == int(Strip(text))

\* The count the text stands for, or ValueError.
NewAbsences(text) ==
    LET n == int(Strip(text))
    IN  IF n.ok /\ n.val >= 0 THEN n ELSE [ok |-> FALSE, val |-> 0]

commit_message(student_name, student_id, new_absences) ==
    <<"Obnovlenie propuskov:", " ">> \o student_name \o <<" ", "(">> \o student_id
    \o <<")", " ", "->", " ">> \o str(new_absences)

\* A last reply that reports success whatever the commit returned.
final_message_AlwaysSuccess(committed, student_name, student_id, new_absences) ==
    [kind |-> "edit_success", name |-> student_name, id |-> student_id,
     absences |-> new_absences]

\* The last reply of get_absences_count: success only when the commit returned
\* True, the warning otherwise.
final_message(committed, student_name, student_id, new_absences) ==
    IF committed
    THEN [kind |-> "edit_success", name |-> student_name, id |-> student_id,
          absences |-> new_absences]
    ELSE [kind |-> "commit_failed"]

\* [ud, state, STUDENT_DATA, remote, replies, http, raised]; `state` is the
\* state stored for the conversation afterwards (`cur` when an exception
\* leaves the handler).
get_absences_count(ud, cur, sd, e, rem, text, getOk, putOk) ==
    LET n == NewAbsences(text)
        student_id == ud.temp_edit_id
        popped == [ud EXCEPT !.temp_edit_id = None]
        student_name == Get(sd, student_id).FIO
        new_sd == SetAbsences(sd, student_id, n.val)
        new_csv_content == convert_data_to_csv_string(new_sd)
        message == commit_message(student_name, student_id, n.val)
        c == update_github_file(e, new_csv_content, message, rem, getOk, putOk)
    IN  IF ~n.ok
        THEN [ud |-> ud, state |-> GETTING_ABSENCES, STUDENT_DATA |-> sd, remote |-> rem,
              replies |-> <<[kind |-> "bad_count"]>>, http |-> <<>>, raised |-> "none"]
        ELSE IF ud.temp_edit_id = None
        THEN [ud |-> ud, state |-> cur, STUDENT_DATA |-> sd, remote |-> rem,
              replies |-> <<>>, http |-> <<>>, raised |-> "KeyError"]
        ELSE IF ~Has(sd, student_id)
        THEN [ud |-> popped, state |-> cur, STUDENT_DATA |-> sd, remote |-> rem,
              replies |-> <<>>, http |-> <<>>, raised |-> "KeyError"]
        ELSE [ud |-> popped, state |-> END, STUDENT_DATA |-> new_sd, remote |-> c.remote,
              replies |-> <<[kind |-> "local_updated"],
                            final_message(c.ret, student_name, student_id, n.val)>>,
              http |-> c.http, raised |-> "none"]

\* A cancellation that leaves the marker in place.
cancel_edit_pass_KeepsMarker(ud) ==
    [ud |-> ud, state |-> END, replies |-> <<[kind |-> "cancelled"]>>]

cancel_edit_pass(ud) ==
    [ud |-> [ud EXCEPT !.temp_edit_id = None], state |-> END,
     replies |-> <<[kind |-> "cancelled"]>>]

(***************************************************************************)
(* Inputs and bounds.                                                      *)
(***************************************************************************)
\* Counts an administrator may type: 0..MaxInput.
MaxInput == 1

\* The file other writers keep in the remote store has at most this many rows.
MaxRemoteRows == 2

\* A delimited file: a header line and data lines.
Document(header, rows, eol) == Join(<<header>> \o rows, eol)

\* Row i of the file as other writers keep it: student 70 + i, with a count
\* that is zero for the first student and negative from the second on.
StudentId(i) == str(70 + i)

RemoteRow(i) ==
    StudentId(i) \o <<";", IF i = 1 THEN "A" ELSE "B", ";">> \o str(1 - i)

\* What the remote file may hold after somebody else has written it: nothing
\* at all, or the header and the rows from some row on.
ExternalContents ==
    {<<>>} \cup {Document(HeaderText, [j \in 1..(MaxRemoteRows - i) |-> RemoteRow(i + j)], <<"\n">>) :
                    i \in 0..MaxRemoteRows}

\* Text messages (no commands) the administrator may send: the first student's
\* identifier, bare and padded, counts, invalid counts and the two buttons.
TextInputs ==
    {StudentId(1), <<" ">> \o StudentId(1) \o <<" ">>}
    \cup {str(n) : n \in 0..MaxInput}
    \cup {<<"-", "1">>, <<"x">>, BTN_CHECK_PASSES, BTN_CHANGE_ID}

\* Text messages the other user sends.
OtherInputs == {<<"x">>, BTN_CHECK_PASSES}

Inputs(u) == IF u = ADMIN_USER_ID THEN TextInputs ELSE OtherInputs

\* Dates the commits API may report.
CommitDates == {[day |-> 1, hour |-> 22]}

\* Answers of the commits API: an error, an empty list, a list of one commit.
CommitsResponses ==
    {[ok |-> FALSE, list |-> <<>>], [ok |-> TRUE, list |-> <<>>]}
    \cup {[ok |-> TRUE, list |-> <<d>>] : d \in CommitDates}

\* The answers a request can get: one placeholder when it is never sent.
CommitsAnswers(asked) == IF asked THEN CommitsResponses ELSE {[ok |-> FALSE, list |-> <<>>]}

Outcomes(asked) == IF asked THEN BOOLEAN ELSE {FALSE}

(***************************************************************************)
(* The state machine.                                                      *)
(***************************************************************************)
\* What the last step sent: the handler that ran, its replies, its requests
\* and the exception that left it, if any.
Event(handler, replies, http, raised) ==
    [handler |-> handler, replies |-> replies, http |-> http, raised |-> raised]

\* The module level of app.py, before startup_event has run.
Init ==
    /\ STUDENT_DATA = <<>>
    /\ LAST_UPDATED_TIME = Neizvestno
    /\ user_data = [u \in Users |-> [registered_id |-> None, temp_edit_id |-> None]]
    /\ conv = [u \in Users |-> END]
    /\ remote \in ExternalContents
    /\ env \in Envs
    /\ phase = "startup"
    /\ last = Event("import", <<>>, <<>>, "none")

\* startup_event: the first load, then the handlers are registered.
Startup ==
    /\ phase = "startup"
    /\ \E commits \in CommitsAnswers(LoadQueriesCommits(env)),
          rawOk \in Outcomes(env.CSV_URL # None) :
          LET r == load_data_from_git(env, LAST_UPDATED_TIME, STUDENT_DATA, remote,
                                      commits, rawOk)
          IN  /\ STUDENT_DATA' = r.STUDENT_DATA
              /\ LAST_UPDATED_TIME' = r.LAST_UPDATED_TIME
              /\ last' = Event("startup_event", <<>>, r.http, "none")
    /\ phase' = "running"
    /\ UNCHANGED <<user_data, conv, remote, env>>

\* Somebody else writes the remote file.
ExternalEdit ==
    /\ phase = "running"
    /\ \E c \in ExternalContents : remote' = c /\ c # remote
    /\ last' = Event("external", <<>>, <<>>, "none")
    /\ UNCHANGED <<STUDENT_DATA, LAST_UPDATED_TIME, user_data, conv, env, phase>>

\* /start, in any state of the conversation.
StartCommand(u) ==
    /\ phase = "running"
    /\ LET r == start_command(user_data[u], LAST_UPDATED_TIME)
       IN  /\ user_data' = [user_data EXCEPT ![u] = r.ud]
           /\ last' = Event("start_command", r.replies, <<>>, "none")
    /\ UNCHANGED <<STUDENT_DATA, LAST_UPDATED_TIME, conv, remote, env, phase>>

\* /reload_data, in any state of the conversation.
ReloadData(u) ==
    /\ phase = "running"
    /\ \E commits \in CommitsAnswers(u = ADMIN_USER_ID /\ LoadQueriesCommits(env)),
          rawOk \in Outcomes(u = ADMIN_USER_ID /\ env.CSV_URL # None) :
          LET r == reload_data_command(u, env, LAST_UPDATED_TIME, STUDENT_DATA, remote,
                                       commits, rawOk)
          IN  /\ STUDENT_DATA' = r.STUDENT_DATA
              /\ LAST_UPDATED_TIME' = r.LAST_UPDATED_TIME
              /\ last' = Event("reload_data_command", r.replies, r.http, "none")
    /\ UNCHANGED <<user_data, conv, remote, env, phase>>

\* A text message outside the edit conversation.
HandleMessage(u, text) ==
    /\ phase = "running"
    /\ conv[u] = END
    /\ LET r == handle_message(user_data[u], STUDENT_DATA, LAST_UPDATED_TIME, text)
       IN  /\ user_data' = [user_data EXCEPT ![u] = r.ud]
           /\ last' = Event("handle_message", r.replies, <<>>, "none")
    /\ UNCHANGED <<STUDENT_DATA, LAST_UPDATED_TIME, conv, remote, env, phase>>

\* /edit_pass, the entry point of the conversation.
StartEditPass(u) ==
    /\ phase = "running"
    /\ conv[u] = END
    /\ LET r == start_edit_pass_command(u)
       IN  /\ conv' = [conv EXCEPT ![u] = r.state]
           /\ last' = Event("start_edit_pass_command", r.replies, <<>>, "none")
    /\ UNCHANGED <<STUDENT_DATA, LAST_UPDATED_TIME, user_data, remote, env, phase>>

\* A text message in the state GETTING_ID.
GetStudentId(u, text) ==
    /\ phase = "running"
    /\ conv[u] = GETTING_ID
    /\ LET r == get_student_id(user_data[u], STUDENT_DATA, text)
       IN  /\ user_data' = [user_data EXCEPT ![u] = r.ud]
           /\ conv' = [conv EXCEPT ![u] = r.state]
           /\ last' = Event("get_student_id", r.replies, <<>>, "none")
    /\ UNCHANGED <<STUDENT_DATA, LAST_UPDATED_TIME, remote, env, phase>>

\* Whether get_absences_count reaches update_github_file, and whether that
\* sends its two requests.
CommitReached(ud, sd, text) ==
    NewAbsences(text).ok /\ ud.temp_edit_id # None /\ Has(sd, ud.temp_edit_id)

CommitAsks(e) == e.GITHUB_TOKEN # None /\ e.REPO_DETAILS_FULL # None /\ RepoDetailsOk(e)

\* A text message in the state GETTING_ABSENCES.
GetAbsencesCount(u, text) ==
    /\ phase = "running"
    /\ conv[u] = GETTING_ABSENCES
    /\ \E getOk \in Outcomes(CommitReached(user_data[u], STUDENT_DATA, text) /\ CommitAsks(env)) :
       \E putOk \in Outcomes(getOk) :
          LET r == get_absences_count(user_data[u], conv[u], STUDENT_DATA, env, remote,
                                      text, getOk, putOk)
          IN  /\ user_data' = [user_data EXCEPT ![u] = r.ud]
              /\ conv' = [conv EXCEPT ![u] = r.state]
              /\ STUDENT_DATA' = r.STUDENT_DATA
              /\ remote' = r.remote
              /\ last' = Event("get_absences_count", r.replies, r.http, r.raised)
    /\ UNCHANGED <<LAST_UPDATED_TIME, env, phase>>

\* /cancel, the fallback of the conversation, in either of its states.
CancelEditPass(u) ==
    /\ phase = "running"
    /\ conv[u] # END
    /\ LET r == cancel_edit_pass(user_data[u])
       IN  /\ user_data' = [user_data EXCEPT ![u] = r.ud]
           /\ conv' = [conv EXCEPT ![u] = r.state]
           /\ last' = Event("cancel_edit_pass", r.replies, <<>>, "none")
    /\ UNCHANGED <<STUDENT_DATA, LAST_UPDATED_TIME, remote, env, phase>>

Next ==
    \/ Startup
    \/ ExternalEdit
    \/ \E u \in Users : StartCommand(u)
    \/ \E u \in Users : ReloadData(u)
    \/ \E u \in Users : \E text \in Inputs(u) : HandleMessage(u, text)
    \/ \E u \in Users : StartEditPass(u)
    \/ \E u \in Users : \E text \in Inputs(u) : GetStudentId(u, text)
    \/ \E u \in Users : \E text \in Inputs(u) : GetAbsencesCount(u, text)
    \/ \E u \in Users : CancelEditPass(u)

Spec == Init /\ [][Next]_vars

(***************************************************************************)
(* The parser and the serializer on their own: a file is parsed, the       *)
(* record set is written back with convert_data_to_csv_string, and that    *)
(* text is parsed again.                                                   *)
(***************************************************************************)
MaxParseRows == 2

\* Header lines: the one the serializer writes, padded names, other column
\* orders, an empty column name, a missing column.
ParseHeaders ==
    {HeaderText,
     <<" ">> \o student_id_key \o <<" ", ";", " ">> \o fio_key \o <<";">> \o absences_key \o <<" ">>,
     Join(<<absences_key, student_id_key, fio_key>>, <<";">>),
     Join(<<student_id_key, <<>>, absences_key>>, <<";">>),
     Join(<<student_id_key, fio_key>>, <<";">>),
     Join(<<fio_key, absences_key>>, <<";">>)}

ParseIdFields == {<<"7">>, <<" ", "8", " ">>, <<>>}

ParseCountFields == {<<"0">>, <<"-", "1">>, <<"x">>}

\* Data lines: every identifier with every count, a blank line, a line that
\* stops after the identifier, a padded name with a signed count, and a line
\* with one field too many.
ParseRows ==
    {Join(<<i, <<"A">>, c>>, <<";">>) : i \in ParseIdFields, c \in ParseCountFields}
    \cup {<<>>, <<"7">>, <<"7", ";", " ", "B", " ", ";", "+", "1", "2">>,
          <<"8", ";", "A", ";", "1", ";", "z">>}

\* Layouts: the line break, a byte-order mark in front, a line break at the end.
ParseLayouts ==
    {[eol |-> <<"\n">>, bom |-> FALSE, tail |-> FALSE],
     [eol |-> <<"\r", "\n">>, bom |-> TRUE, tail |-> TRUE]}

\* Texts without content: empty, blank, a byte-order mark alone or before
\* blanks.
BlankContents == {<<>>, <<" ", "\n">>, <<BOM>>, <<BOM, "\r", "\n", " ">>}

ParseInputs ==
    BlankContents
    \cup {(IF l.bom THEN <<BOM>> ELSE <<>>) \o Document(h, rows, l.eol)
          \o (IF l.tail THEN l.eol ELSE <<>>) :
             h \in ParseHeaders, l \in ParseLayouts,
             rows \in UNION {[1..k -> ParseRows] : k \in 0..MaxParseRows}}

InitParse ==
    /\ STUDENT_DATA = <<>>
    /\ LAST_UPDATED_TIME = Neizvestno
    /\ user_data = [u \in Users |-> [registered_id |-> None, temp_edit_id |-> None]]
    /\ conv = [u \in Users |-> END]
    /\ remote \in ParseInputs
    /\ env = FullEnv
    /\ phase = "input"
    /\ last = [handler |-> "import", ret |-> FALSE, before |-> <<>>]

\* parse_csv_data on the text at hand: the given file, the serializer's, or
\* the one that replaced the given file.
ParseStep ==
    /\ phase \in {"input", "serialized", "replaced"}
    /\ LET r == parse_csv_data(remote)
       IN  /\ STUDENT_DATA' = r.data
           /\ last' = [handler |-> "parse_csv_data", ret |-> r.ok, before |-> STUDENT_DATA]
    /\ phase' = IF phase = "serialized" THEN "reparsed" ELSE "parsed"
    /\ UNCHANGED <<LAST_UPDATED_TIME, user_data, conv, remote, env>>

\* convert_data_to_csv_string on the record set a successful parse left.
SerializeStep ==
    /\ phase = "parsed"
    /\ last.ret
    /\ remote' = convert_data_to_csv_string(STUDENT_DATA)
    /\ phase' = "serialized"
    /\ last' = [handler |-> "convert_data_to_csv_string", ret |-> TRUE, before |-> STUDENT_DATA]
    /\ UNCHANGED <<STUDENT_DATA, LAST_UPDATED_TIME, user_data, conv, env>>

\* The file is replaced by one without content, to be parsed over the record
\* set the last parse left.
ReplaceFile ==
    /\ phase = "parsed"
    /\ remote \notin BlankContents
    /\ remote' \in BlankContents
    /\ phase' = "replaced"
    /\ last' = [handler |-> "external", ret |-> FALSE, before |-> STUDENT_DATA]
    /\ UNCHANGED <<STUDENT_DATA, LAST_UPDATED_TIME, user_data, conv, env>>

NextParse == ParseStep \/ SerializeStep \/ ReplaceFile

SpecParse == InitParse /\ [][NextParse]_vars

(***************************************************************************)
(* Claims about the edit conversation.                                     *)
(***************************************************************************)
\* A text that reads as an integer n >= 0.
ValidCount(text) == int(text).ok /\ int(text).val >= 0

\* The step handled a valid count in GETTING_ABSENCES with a marker set.
ValidCountStep(u, text) ==
    /\ conv[u] = GETTING_ABSENCES
    /\ user_data[u].temp_edit_id # None
    /\ ValidCount(text)
    /\ GetAbsencesCount(u, text)

\* C1 (as stated): a valid count n submitted in GETTING_ABSENCES with pending
\* identifier p leaves the entry of p with count n, every other record and the
\* name of p as they were, the marker cleared and the conversation ended,
\* whether or not the commit succeeds.
C1_EditCompletes ==
    [][\A u \in Users : \A text \in Inputs(u) :
          ValidCountStep(u, text) =>
             LET p == user_data[u].temp_edit_id
                 n == int(text).val
             IN  /\ Has(STUDENT_DATA', p)
                 /\ Get(STUDENT_DATA', p).absences = n
                 /\ Keys(STUDENT_DATA') = Keys(STUDENT_DATA)
                 /\ \A k \in Keys(STUDENT_DATA) :
                       /\ Get(STUDENT_DATA', k).FIO = Get(STUDENT_DATA, k).FIO
                       /\ k # p => Get(STUDENT_DATA', k) = Get(STUDENT_DATA, k)
                 /\ user_data'[u].temp_edit_id = None
                 /\ conv'[u] = END]_vars

\* C2: in GETTING_ABSENCES a text that is no integer, or a negative one, gets
\* the re-prompt and changes nothing: the conversation state, the marker, the
\* record set and the remote file stay, and no request is sent.
C2_InvalidCountChangesNothing ==
    [][\A u \in Users : \A text \in Inputs(u) :
          (conv[u] = GETTING_ABSENCES /\ ~ValidCount(text) /\ GetAbsencesCount(u, text)) =>
             /\ conv'[u] = GETTING_ABSENCES
             /\ user_data' = user_data
             /\ STUDENT_DATA' = STUDENT_DATA
             /\ remote' = remote
             /\ last'.replies = <<[kind |-> "bad_count"]>>
             /\ last'.http = <<>>]_vars

C2_Witness ==
    /\ last.handler = "get_absences_count"
    /\ last.replies = <<[kind |-> "bad_count"]>>
    /\ conv[ADMIN_USER_ID] = GETTING_ABSENCES
    /\ user_data[ADMIN_USER_ID].temp_edit_id = StudentId(1)
    /\ Has(STUDENT_DATA, StudentId(1))

\* C3: /edit_pass or /reload_data from a user who is not the administrator is
\* answered with the denial and changes nothing: no conversation is opened, no
\* marker is set, the record set and the timestamp stay, no request is sent.
C3_DeniedChangesNothing ==
    [][\A u \in Users :
          (u # ADMIN_USER_ID /\ (StartEditPass(u) \/ ReloadData(u))) =>
             /\ last'.replies = <<[kind |-> "denied"]>>
             /\ last'.http = <<>>
             /\ conv'[u] = END
             /\ UNCHANGED <<conv, user_data, STUDENT_DATA, LAST_UPDATED_TIME, remote>>]_vars

C3_Witness ==
    /\ last.handler = "start_edit_pass_command"
    /\ last.replies = <<[kind |-> "denied"]>>
    /\ conv[OtherUser] = END
    /\ STUDENT_DATA # <<>>

\* C4: in GETTING_ID a text that is no key of the record set gets the re-prompt;
\* the conversation stays in GETTING_ID, the marker stays unset and the record
\* set stays, so the same step can be taken again.
C4_UnknownIdReprompts ==
    [][\A u \in Users : \A text \in Inputs(u) :
          (conv[u] = GETTING_ID /\ ~Has(STUDENT_DATA, Strip(text)) /\ GetStudentId(u, text)) =>
             /\ conv'[u] = GETTING_ID
             /\ user_data'[u].temp_edit_id = None
             /\ user_data' = user_data
             /\ STUDENT_DATA' = STUDENT_DATA
             /\ last'.replies = <<[kind |-> "edit_not_found", id |-> Strip(text)]>>]_vars

C4_Witness ==
    /\ last.handler = "get_student_id"
    /\ last.replies = <<[kind |-> "edit_not_found", id |-> <<"x">>]>>
    /\ conv[ADMIN_USER_ID] = GETTING_ID
    /\ STUDENT_DATA # <<>>

\* C5: in GETTING_ID a text that is a key k of the record set stores k as the
\* marker and moves the conversation to GETTING_ABSENCES; the record set stays.
C5_KnownIdAdvances ==
    [][\A u \in Users : \A text \in Inputs(u) :
          (conv[u] = GETTING_ID /\ Has(STUDENT_DATA, Strip(text)) /\ GetStudentId(u, text)) =>
             /\ user_data'[u].temp_edit_id = Strip(text)
             /\ conv'[u] = GETTING_ABSENCES
             /\ STUDENT_DATA' = STUDENT_DATA]_vars

C5_Witness ==
    /\ last.handler = "get_student_id"
    /\ conv[ADMIN_USER_ID] = GETTING_ABSENCES
    /\ user_data[ADMIN_USER_ID].temp_edit_id = StudentId(1)
    /\ Has(STUDENT_DATA, StudentId(1))

\* C6: /cancel is handled in both states of the conversation; it clears the
\* marker, ends the conversation and reports the cancellation, and leaves the
\* record set and the remote file alone without sending a request.
C6_CancelEnds ==
    /\ [](\A u \in Users : conv[u] # END => ENABLED CancelEditPass(u))
    /\ [][\A u \in Users :
             CancelEditPass(u) =>
                /\ user_data'[u].temp_edit_id = None
                /\ conv'[u] = END
                /\ last'.replies = <<[kind |-> "cancelled"]>>
                /\ last'.http = <<>>
                /\ STUDENT_DATA' = STUDENT_DATA
                /\ remote' = remote]_vars

C6_Witness ==
    /\ last.handler = "cancel_edit_pass"
    /\ conv[ADMIN_USER_ID] = END
    /\ user_data[ADMIN_USER_ID].temp_edit_id = None
    /\ STUDENT_DATA # <<>>

\* The requests of a step show a commit that succeeded: the token was read and
\* the write was accepted.
CommitSucceeded(ev) ==
    /\ Len(ev.http) = 2
    /\ ev.http[2].method = "PUT"
    /\ ev.http[1].ok /\ ev.http[2].ok

\* C7: when a valid count reaches the commit and the commit fails, the record
\* set keeps the new count, the warning is sent instead of the success reply and
\* the conversation ends; the success reply is sent only for a commit that
\* succeeded.
C7_CommitFailureKeepsLocal ==
    [][\A u \in Users : \A text \in Inputs(u) :
          (ValidCountStep(u, text) /\ Has(STUDENT_DATA, user_data[u].temp_edit_id)) =>
             LET p == user_data[u].temp_edit_id
                 final == last'.replies[Len(last'.replies)]
             IN  /\ final.kind = "edit_success" => CommitSucceeded(last')
                 /\ ~CommitSucceeded(last') =>
                       /\ final = [kind |-> "commit_failed"]
                       /\ Get(STUDENT_DATA', p).absences = int(text).val
                       /\ remote' = remote
                       /\ conv'[u] = END]_vars

C7_Witness ==
    /\ last.handler = "get_absences_count"
    /\ last.replies = <<[kind |-> "local_updated"], [kind |-> "commit_failed"]>>
    /\ Len(last.http) = 2 /\ ~last.http[2].ok
    /\ conv[ADMIN_USER_ID] = END
    /\ Get(STUDENT_DATA, StudentId(1)).absences = 1

(***************************************************************************)
(* Claims about the parser and the serializer.                             *)
(***************************************************************************)
\* C8: a file that parses, written back by the serializer and parsed again,
\* gives the same identifiers with the same names and counts, whatever the
\* order of the keys.
C8_RoundTrip ==
    phase = "reparsed" => last.ret /\ AsMap(STUDENT_DATA) = AsMap(last.before)

C8_Witness ==
    /\ phase = "reparsed"
    /\ Len(STUDENT_DATA) = 2
    /\ \E i \in 1..2 : STUDENT_DATA[i].absences < 0
    /\ \E i \in 1..2 : STUDENT_DATA[i].FIO = <<"B">>

(***************************************************************************)
(* Claims about lookups and the record set.                                *)
(***************************************************************************)
\* C9: a free-text lookup of a key of the record set is answered with that
\* record's name and count and registers the identifier; a lookup of anything
\* else is answered with the not-found reply and leaves the user's context as
\* it was.
C9_Lookup ==
    [][\A u \in Users : \A text \in Inputs(u) :
          (HandleMessage(u, text) /\ Strip(text) \notin {BTN_CHECK_PASSES, BTN_CHANGE_ID}) =>
             LET id == Strip(text)
             IN  IF Has(STUDENT_DATA, id)
                 THEN /\ \E i \in 1..Len(last'.replies) :
                            /\ last'.replies[i].kind = "data"
                            /\ last'.replies[i].id = id
                            /\ last'.replies[i].name = Get(STUDENT_DATA, id).FIO
                            /\ last'.replies[i].absences = Get(STUDENT_DATA, id).absences
                      /\ user_data'[u].registered_id = id
                 ELSE /\ last'.replies = <<[kind |-> "not_found", id |-> id]>>
                      /\ user_data' = user_data]_vars

C9_Witness ==
    /\ last.handler = "handle_message"
    /\ Len(last.replies) = 2
    /\ last.replies[2].kind = "data"
    /\ last.replies[2].absences = 1
    /\ user_data[ADMIN_USER_ID].registered_id = StudentId(1)

\* C10 (as stated): every record of the record set has a count >= 0.
C10_CountsNonNegative ==
    \A i \in 1..Len(STUDENT_DATA) : STUDENT_DATA[i].absences >= 0

(***************************************************************************)
(* Claims about single rows of the file.  The text that was parsed is      *)
(* still in `remote` after ParseStep; its lines and columns are read here  *)
(* with the text primitives alone.                                         *)
(***************************************************************************)
\* The lines of the parsed text, the header first.
ParsedLines ==
    SplitLines(Strip(IF remote # <<>> /\ Head(remote) = BOM THEN LStripBOM(remote) ELSE remote))

\* The column names of the header, blanks and empty names dropped.
ColumnNames == NonEmpty(StripAll(Split(Strip(ParsedLines[1]), delimiter_char)))

\* The value line j holds in the column called name, stripped; empty when the
\* header has no such column or the line ends before it.
Field(j, name) ==
    LET f == Split(ParsedLines[j], delimiter_char)
        cols == {i \in 1..Len(ColumnNames) : ColumnNames[i] = name}
    IN  IF cols = {} THEN <<>>
        ELSE LET c == CHOOSE i \in cols : \A i2 \in cols : i2 <= i
             IN  IF c <= Len(f) THEN Strip(f[c]) ELSE <<>>

\* A header and at least one data line, no line with more fields than columns.
RowsFitHeader ==
    /\ Len(ParsedLines) >= 2
    /\ ColumnNames # <<>>
    /\ \A j \in 2..Len(ParsedLines) :
          Len(Split(ParsedLines[j], delimiter_char)) <= Len(ColumnNames)

\* C11: a row without a value in the identifier column is left out of the
\* record set and does not fail the parse; a row with an identifier whose
\* count field is no integer is in the record set with count 0.
C11_RowRules ==
    (phase = "parsed" /\ RowsFitHeader) =>
        /\ last.ret
        /\ Keys(STUDENT_DATA) =
              {Field(j, student_id_key) : j \in 2..Len(ParsedLines)} \ {<<>>}
        /\ \A j \in 2..Len(ParsedLines) :
              (/\ Field(j, student_id_key) # <<>>
               /\ ~int(Field(j, absences_key)).ok
               /\ \A j2 \in (j + 1)..Len(ParsedLines) :
                     Field(j2, student_id_key) # Field(j, student_id_key))
              => Get(STUDENT_DATA, Field(j, student_id_key)).absences = 0

C11_Witness ==
    /\ phase = "parsed"
    /\ remote = Document(HeaderText, <<<<";", "A", ";", "0">>, <<"7", ";", "A", ";", "x">>>>,
                         <<"\n">>)
    /\ RowsFitHeader
    /\ last.ret
    /\ STUDENT_DATA = <<[id |-> <<"7">>, FIO |-> <<"A">>, absences |-> 0]>>

\* A text of blanks and line breaks only, a leading run of byte-order marks
\* taken off first.
IsBlank(text) ==
    LET t == LStripBOM(text)
    IN  \A i \in 1..Len(t) : t[i] \in Whitespace

\* C12: parsing a text that is empty or blank, also behind a byte-order mark,
\* reports failure and leaves the record set empty, whatever it held before.
C12_BlankFails ==
    (phase = "parsed" /\ IsBlank(remote)) => ~last.ret /\ STUDENT_DATA = <<>>

C12_Witness ==
    /\ phase = "parsed"
    /\ remote = <<BOM, "\r", "\n", " ">>
    /\ Len(last.before) = 2
    /\ ~last.ret
    /\ STUDENT_DATA = <<>>

(***************************************************************************)
(* Claims about loading and committing.                                    *)
(***************************************************************************)
\* C13: after a reload whose fetch and parse succeed the record set is exactly
\* what the fetched text parses to: keys the text does not hold are gone and
\* counts edited locally are replaced by the fetched ones.
C13_ReloadReplaces ==
    [][(/\ last'.handler = "reload_data_command"
        /\ last'.replies[Len(last'.replies)].kind = "reloaded"
        /\ ReloadData(ADMIN_USER_ID)) =>
          LET parsed == parse_csv_data(remote)
          IN  /\ parsed.ok
              /\ STUDENT_DATA' = parsed.data
              /\ last'.replies[Len(last'.replies)].count = Len(parsed.data)]_vars

\* The first student was a key once (the administrator registered under it) and
\* a successful reload has left the second student alone in the record set.
C13_Witness ==
    /\ last.handler = "reload_data_command"
    /\ last.replies[Len(last.replies)].kind = "reloaded"
    /\ user_data[ADMIN_USER_ID].registered_id = StudentId(1)
    /\ Keys(STUDENT_DATA) = {StudentId(2)}
    /\ STUDENT_DATA = parse_csv_data(remote).data

\* A data line with more fields than the header has columns: csv.DictReader
\* keeps the surplus as a list, and stripping that list raises.
SomeRowTooLong ==
    /\ Len(ParsedLines) >= 2
    /\ ColumnNames # <<>>
    /\ \E j \in 2..Len(ParsedLines) :
          Len(Split(ParsedLines[j], delimiter_char)) > Len(ColumnNames)

\* C14 (as stated): when processing a row raises, the parse reports failure
\* and the record set holds none of the rows processed before that row.
C14_PartialDiscarded ==
    (phase = "parsed" /\ SomeRowTooLong) => ~last.ret /\ STUDENT_DATA = <<>>

\* C15: a commit reads the version token of the remote file and then sends one
\* write with that token, the content and the message; when the read fails no
\* write is sent and the commit fails; it succeeds only when both requests
\* succeeded, and no request is sent twice.
C15_CommitProtocol ==
    [][(/\ last'.handler = "get_absences_count"
        /\ \E u \in Users : \E text \in Inputs(u) : GetAbsencesCount(u, text)) =>
          LET h == last'.http
              final == last'.replies[Len(last'.replies)]
          IN  /\ Len(h) <= 2
              /\ Len(h) >= 1 => h[1].method = "GET" /\ Len(last'.replies) = 2
              /\ Len(h) = 2 =>
                    /\ h[1].ok
                    /\ h[2].method = "PUT"
                    /\ h[2].sha = Sha(remote)
                    /\ h[2].content = b64encode(convert_data_to_csv_string(STUDENT_DATA'))
                    /\ h[2].message # <<>>
              /\ (Len(h) >= 1 /\ ~h[1].ok) =>
                    /\ Len(h) = 1
                    /\ final.kind = "commit_failed"
                    /\ remote' = remote
              /\ (last'.replies # <<>> /\ final.kind = "edit_success") =>
                    Len(h) = 2 /\ h[1].ok /\ h[2].ok
              /\ (Len(h) = 2 /\ h[2].ok) =>
                    /\ final.kind = "edit_success"
                    /\ remote' = convert_data_to_csv_string(STUDENT_DATA')]_vars

C15_Witness ==
    /\ last.handler = "get_absences_count"
    /\ Len(last.http) = 1
    /\ last.http[1].method = "GET" /\ ~last.http[1].ok
    /\ last.replies[2].kind = "commit_failed"
    /\ Get(STUDENT_DATA, StudentId(1)).absences = 1

\* The step is a fetch (at startup or by the administrator's /reload_data) in
\* which the commits API answered `commits` and the raw download `rawOk`.
FetchStep(commits, rawOk) ==
    LET r == load_data_from_git(env, LAST_UPDATED_TIME, STUDENT_DATA, remote, commits, rawOk)
    IN  /\ last'.handler \in {"startup_event", "reload_data_command"}
        /\ Startup \/ ReloadData(ADMIN_USER_ID)
        /\ commits \in CommitsAnswers(LoadQueriesCommits(env))
        /\ rawOk \in Outcomes(env.CSV_URL # None)
        /\ STUDENT_DATA' = r.STUDENT_DATA
        /\ LAST_UPDATED_TIME' = r.LAST_UPDATED_TIME
        /\ last'.http = r.http

\* C16 (as stated): after a fetch in which the commits query gives no timestamp
\* (it fails, returns no entry, or is not sent for want of configuration) the
\* timestamp is "unknown".
C16_TimestampUnknown ==
    [][\A commits \in CommitsResponses : \A rawOk \in BOOLEAN :
          (/\ FetchStep(commits, rawOk)
           /\ (~LoadQueriesCommits(env) \/ ~commits.ok \/ commits.list = <<>>)) =>
             LAST_UPDATED_TIME' = Neizvestno]_vars

\* C17: with the raw URL configured, what a fetch returns and the record set
\* it leaves depend on the raw download alone: they are the same whether the
\* commits query succeeded, failed or was not sent.
C17_FetchIgnoresTimestampQuery ==
    [][(/\ last'.handler \in {"startup_event", "reload_data_command"}
        /\ env.CSV_URL # None
        /\ Startup \/ ReloadData(ADMIN_USER_ID)) =>
          LET h == last'.http
              rawSent == \E i \in 1..Len(h) : h[i].url = "raw"
              rawOk == \E i \in 1..Len(h) : h[i].url = "raw" /\ h[i].ok
              parsed == parse_csv_data(remote)
          IN  /\ rawSent
              /\ STUDENT_DATA' = IF rawOk THEN parsed.data ELSE STUDENT_DATA
              /\ last'.handler = "reload_data_command" =>
                    last'.replies[2].kind =
                       IF rawOk /\ parsed.ok THEN "reloaded" ELSE "load_failed"]_vars

\* A reload that succeeded although its commits query failed.
C17_Witness ==
    /\ last.handler = "reload_data_command"
    /\ Len(last.http) = 2
    /\ last.http[1].url = "commits" /\ ~last.http[1].ok
    /\ last.http[2].url = "raw" /\ last.http[2].ok
    /\ last.replies[2].kind = "reloaded"
    /\ Len(STUDENT_DATA) = 2

(***************************************************************************)
(* Claims about the record set, the users' contexts and the conversation.  *)
(***************************************************************************)
\* C18 (as stated): process_data_request is only ever called with a key of the
\* record set, so its not-found branch is never taken and no step sends the
\* data-error reply.
C18_LookupOnlyOfKeys ==
    \A i \in 1..Len(last.replies) : last.replies[i].kind # "data_error"

\* C19 (as stated): while the conversation awaits the new count, the pending
\* identifier is a key of the record set, whatever reloads came in between.
C19_PendingIdIsKey ==
    \A u \in Users :
        conv[u] = GETTING_ABSENCES => Has(STUDENT_DATA, user_data[u].temp_edit_id)

\* C20 (as stated): the marker is set exactly while the conversation awaits the
\* new count: unset when it has ended and when it awaits the identifier.
C20_MarkerIffAwaitingCount ==
    \A u \in Users :
        (user_data[u].temp_edit_id # None) <=> (conv[u] = GETTING_ABSENCES)

\* C21: after a count step whose commit succeeds the remote file is the whole
\* record set as the step left it: it parses to every local record, the edited
\* one with its new count, and to nothing else, whatever the remote file held
\* before.
C21_CommitWritesLocalSet ==
    [][\A u \in Users : \A text \in Inputs(u) :
          (/\ last'.handler = "get_absences_count"
           /\ CommitSucceeded(last')
           /\ ValidCountStep(u, text)) =>
             LET p == user_data[u].temp_edit_id
                 written == parse_csv_data(remote')
             IN  /\ written.ok
                 /\ AsMap(written.data) = AsMap(STUDENT_DATA')
                 /\ Keys(written.data) = Keys(STUDENT_DATA)
                 /\ Get(written.data, p).absences = int(text).val
                 /\ \A k \in Keys(STUDENT_DATA) \ {p} :
                       Get(written.data, k).absences = Get(STUDENT_DATA, k).absences]_vars

\* A commit has succeeded over a remote file that had lost the first student's
\* row since the last load (the version token sent names that file); the file
\* now holds both local records.
C21_Witness ==
    /\ last.handler = "get_absences_count"
    /\ CommitSucceeded(last)
    /\ last.http[2].sha = Sha(Document(HeaderText, <<RemoteRow(2)>>, <<"\n">>))
    /\ Keys(STUDENT_DATA) = {StudentId(1), StudentId(2)}
    /\ Get(STUDENT_DATA, StudentId(1)).absences = 1
    /\ remote = convert_data_to_csv_string(STUDENT_DATA)

\* C22: a fetch that fails before it parses (no raw URL, or the download
\* fails) leaves the record set as it was, though the same fetch has assigned
\* the timestamp; a failing fetch changes the record set only when the text
\* was downloaded and its parse failed.
C22_FailedFetchKeepsRecords ==
    [][(/\ last'.handler \in {"startup_event", "reload_data_command"}
        /\ Startup \/ ReloadData(ADMIN_USER_ID)) =>
          LET h == last'.http
              downloaded == \E i \in 1..Len(h) : h[i].url = "raw" /\ h[i].ok
              failed == /\ last'.handler = "reload_data_command"
                        /\ last'.replies[2].kind = "load_failed"
          IN  /\ env.CSV_URL = None => ~downloaded
              /\ ~downloaded => STUDENT_DATA' = STUDENT_DATA
              /\ (last'.handler = "reload_data_command" /\ ~downloaded) => failed
              /\ (failed /\ STUDENT_DATA' # STUDENT_DATA) =>
                    downloaded /\ ~parse_csv_data(remote).ok]_vars

\* A reload failed at the download after its commits query had given a
\* timestamp; the two records loaded before are still there.
C22_Witness ==
    /\ last.handler = "reload_data_command"
    /\ Len(last.replies) = 2
    /\ last.replies[2].kind = "load_failed"
    /\ Len(last.http) = 2
    /\ last.http[1].url = "commits" /\ last.http[1].ok
    /\ last.http[2].url = "raw" /\ ~last.http[2].ok
    /\ LAST_UPDATED_TIME # Neizvestno
    /\ Len(STUDENT_DATA) = 2

\* C23: the two fields of a user's context are independent.  No step of the
\* edit conversation (entry, identifier, count, cancel) touches a registered
\* identifier or the timestamp; no lookup handler (/start, a text outside the
\* conversation, either button) touches a marker or the conversation state.
C23_FieldsIndependent ==
    [][\A u \in Users :
          /\ (/\ last'.handler \in {"start_edit_pass_command", "get_student_id",
                                    "get_absences_count", "cancel_edit_pass"}
              /\ \/ StartEditPass(u)
                 \/ CancelEditPass(u)
                 \/ \E text \in Inputs(u) : GetStudentId(u, text) \/ GetAbsencesCount(u, text)) =>
                /\ \A v \in Users : user_data'[v].registered_id = user_data[v].registered_id
                /\ LAST_UPDATED_TIME' = LAST_UPDATED_TIME
          /\ (/\ last'.handler \in {"start_command", "handle_message"}
              /\ \/ StartCommand(u)
                 \/ \E text \in Inputs(u) : HandleMessage(u, text)) =>
                /\ \A v \in Users : user_data'[v].temp_edit_id = user_data[v].temp_edit_id
                /\ conv' = conv]_vars

\* /start was handled while the new count was awaited: the registered
\* identifier and the marker are both in place.
C23_Witness ==
    /\ last.handler = "start_command"
    /\ conv[ADMIN_USER_ID] = GETTING_ABSENCES
    /\ user_data[ADMIN_USER_ID].temp_edit_id = StudentId(1)
    /\ user_data[ADMIN_USER_ID].registered_id = StudentId(1)

====
